---- MODULE Spec2Model ----
(***************************************************************************)
(* Model of the honeypot report generator: the prompt -> model call ->     *)
(* section splitter -> table extractor -> document pipeline of main.py.    *)
(*                                                                         *)
(* A Python str is modelled as a sequence of one-character strings, so     *)
(* that split, strip, startswith, endswith and the "in" substring test are *)
(* computed character by character, as the interpreter computes them.      *)
(***************************************************************************)
EXTENDS Integers, Sequences, FiniteSets, TLC

----------------------------------------------------------------------------
(* str primitives used by main.py *)

\* a local variable: the value of F at v, with v evaluated once
Bind(v, F(_)) == CHOOSE r \in {F(x) : x \in {v}} : TRUE

\* the characters str.strip() removes that the modelled texts can hold
Whitespace == {" ", "\t", "\n", "\r"}

\* str.strip()
strip(s) ==
    Bind(s, LAMBDA v :
        IF \A i \in 1..Len(v) : v[i] \in Whitespace THEN <<>>
        ELSE SubSeq(v,
                    CHOOSE a \in 1..Len(v) :
                        v[a] \notin Whitespace /\ \A j \in 1..(a - 1) : v[j] \in Whitespace,
                    CHOOSE b \in 1..Len(v) :
                        v[b] \notin Whitespace /\ \A j \in (b + 1)..Len(v) : v[j] \in Whitespace))

\* str.startswith(p)
startswith(s, p) == Len(p) <= Len(s) /\ SubSeq(s, 1, Len(p)) = p

\* str.endswith(p)
endswith(s, p) == Len(p) <= Len(s) /\ SubSeq(s, Len(s) - Len(p) + 1, Len(s)) = p

\* p in s
contains(s, p) ==
    Bind(s, LAMBDA v : \E i \in 1..(Len(v) - Len(p) + 1) : SubSeq(v, i, i + Len(p) - 1) = p)

\* the parts of s from index i on, s being cut at every c
RECURSIVE split_from(_, _, _)
split_from(s, c, i) ==
    IF \A j \in i..Len(s) : s[j] # c
    THEN <<SubSeq(s, i, Len(s))>>
    ELSE Bind(CHOOSE j \in i..Len(s) : s[j] = c /\ \A m \in i..(j - 1) : s[m] # c,
              LAMBDA j : <<SubSeq(s, i, j - 1)>> \o split_from(s, c, j + 1))

\* str.split(c) for a one-character separator c
split(s, c) == Bind(s, LAMBDA v : split_from(v, c, 1))

\* the entries of ls from index i on, joined by c
RECURSIVE join_from(_, _, _)
join_from(ls, c, i) ==
    IF i > Len(ls) THEN <<>>
    ELSE IF i = Len(ls) THEN ls[i]
    ELSE ls[i] \o <<c>> \o join_from(ls, c, i + 1)

\* c.join(ls)
join(ls, c) == Bind(ls, LAMBDA v : join_from(v, c, 1))

\* Python's None and a list value, for results of type Optional[list]
None == [isNone |-> TRUE, list |-> <<>>]
Some(l) == [isNone |-> FALSE, list |-> l]

\* truthiness of an Optional[list]: None and [] are falsy
Truthy(v) == ~v.isNone /\ v.list # <<>>

----------------------------------------------------------------------------
(* the section catalog of parse_report_sections *)

section_names == <<
    \* Attack Indicators
    <<"A","t","t","a","c","k"," ","I","n","d","i","c","a","t","o","r","s">>,
    \* Honeypot Attack Trends
    <<"H","o","n","e","y","p","o","t"," ","A","t","t","a","c","k"," ","T","r","e","n","d","s">>,
    \* Network Traffic by Protocol
    <<"N","e","t","w","o","r","k"," ","T","r","a","f","f","i","c"," ","b","y"," ","P","r","o","t","o","c","o","l">>,
    \* Indicator of Attacks
    <<"I","n","d","i","c","a","t","o","r"," ","o","f"," ","A","t","t","a","c","k","s">>,
    \* Top IP Addresses
    <<"T","o","p"," ","I","P"," ","A","d","d","r","e","s","s","e","s">>,
    \* Credential Patterns
    <<"C","r","e","d","e","n","t","i","a","l"," ","P","a","t","t","e","r","n","s">>,
    \* Subdomains
    <<"S","u","b","d","o","m","a","i","n","s">>,
    \* Email Addresses
    <<"E","m","a","i","l"," ","A","d","d","r","e","s","s","e","s">>,
    \* Hashes
    <<"H","a","s","h","e","s">>
>>

----------------------------------------------------------------------------
(* parse_markdown_table: main.py 87-109 *)

\* [c.strip() for c in line.split('|')[1:-1]]
cells(line) ==
    Bind(split(line, "|"), LAMBDA parts :
        [i \in 1..(Len(parts) - 2) |-> strip(parts[i + 1])])

\* dict(zip(headers, row_data)): zip stops at the shorter of the two, and a
\* later column of the same name overwrites the earlier one
row_dict(headers, row_data) ==
    Bind(IF Len(headers) < Len(row_data) THEN Len(headers) ELSE Len(row_data), LAMBDA n :
        [h \in {headers[i] : i \in 1..n} |->
            row_data[CHOOSE i \in 1..n :
                        headers[i] = h /\ \A j \in (i + 1)..n : headers[j] # h]])

\* [line.strip() for line in table_text.split('\n') if line.strip()]
stripped_lines(table_text) ==
    Bind(split(table_text, "\n"), LAMBDA raw :
        SelectSeq([i \in 1..Len(raw) |-> strip(raw[i])], LAMBDA l : l # <<>>))

\* row_accepted with the cell-count test loosened to "at least as many cells":
\* zip() then truncates a longer row instead of dropping it
row_accepted_Truncating(line, headers) ==
    /\ startswith(line, <<"|">>)
    /\ endswith(line, <<"|">>)
    /\ Len(cells(line)) >= Len(headers)

\* row_accepted without the cell-count test: zip() then repairs a ragged row
\* into a record with fewer keys
row_accepted_AnyCount(line, headers) ==
    /\ startswith(line, <<"|">>)
    /\ endswith(line, <<"|">>)

\* the row test of the data loop (lines 103-105)
row_accepted(line, headers) ==
    /\ startswith(line, <<"|">>)
    /\ endswith(line, <<"|">>)
    /\ Len(cells(line)) = Len(headers)

\* parse_markdown_table with the data loop started at lines[1:], so that the
\* separator line is not skipped
parse_markdown_table_KeepsSeparator(table_text) ==
    Bind(stripped_lines(table_text), LAMBDA lines :
        IF Len(lines) < 3 THEN None
        ELSE IF ~startswith(lines[1], <<"|">>) \/ ~endswith(lines[1], <<"|">>) THEN None
        ELSE Bind(cells(lines[1]), LAMBDA headers :
                 Bind(SelectSeq(SubSeq(lines, 2, Len(lines)),
                                LAMBDA l : row_accepted(l, headers)), LAMBDA kept :
                     Bind([i \in 1..Len(kept) |-> row_dict(headers, cells(kept[i]))],
                          LAMBDA data_rows : IF data_rows # <<>> THEN Some(data_rows) ELSE None))))

\* parse_markdown_table ending in "return data_rows": an empty list, not None,
\* when no row survives
parse_markdown_table_ReturnsEmpty(table_text) ==
    Bind(stripped_lines(table_text), LAMBDA lines :
        IF Len(lines) < 3 THEN None
        ELSE IF ~startswith(lines[1], <<"|">>) \/ ~endswith(lines[1], <<"|">>) THEN None
        ELSE Bind(cells(lines[1]), LAMBDA headers :
                 Bind(SelectSeq(SubSeq(lines, 3, Len(lines)),
                                LAMBDA l : row_accepted(l, headers)), LAMBDA kept :
                     Bind([i \in 1..Len(kept) |-> row_dict(headers, cells(kept[i]))],
                          LAMBDA data_rows : Some(data_rows)))))

parse_markdown_table(table_text) ==
    Bind(stripped_lines(table_text), LAMBDA lines :
        IF Len(lines) < 3 THEN None
        ELSE IF ~startswith(lines[1], <<"|">>) \/ ~endswith(lines[1], <<"|">>) THEN None
        ELSE Bind(cells(lines[1]), LAMBDA headers :
                 Bind(SelectSeq(SubSeq(lines, 3, Len(lines)),
                                LAMBDA l : row_accepted(l, headers)), LAMBDA kept :
                     Bind([i \in 1..Len(kept) |-> row_dict(headers, cells(kept[i]))],
                          LAMBDA data_rows : IF data_rows # <<>> THEN Some(data_rows) ELSE None))))

----------------------------------------------------------------------------
(* extract_tables_from_text: main.py 112-157 *)

\* line 124: the line looks like a table row
IsTableRow(stripped_line) ==
    /\ startswith(stripped_line, <<"|">>)
    /\ endswith(stripped_line, <<"|">>)
    /\ contains(SubSeq(stripped_line, 2, Len(stripped_line) - 1), <<"|">>)

\* line 129: the line is a table separator line
IsSeparatorLine(stripped_line) ==
    /\ startswith(stripped_line, <<"|">>)
    /\ \/ contains(stripped_line, <<"-", "-", "-">>)
       \/ contains(stripped_line, <<"=", "=", "=", "=">>)

\* close_table adding the records of a run to the table before it
close_table_MergesIntoLast(tables, current_table_lines) ==
    IF Len(current_table_lines) >= 3
    THEN Bind(parse_markdown_table(join(current_table_lines, "\n")), LAMBDA parsed_table :
             IF ~Truthy(parsed_table) THEN tables
             ELSE IF tables = <<>> THEN <<parsed_table.list>>
             ELSE [tables EXCEPT ![Len(tables)] = @ \o parsed_table.list])
    ELSE tables

\* lines 137-141 and 150-154: the tables list after a table run is closed
close_table(tables, current_table_lines) ==
    IF Len(current_table_lines) >= 3
    THEN Bind(parse_markdown_table(join(current_table_lines, "\n")), LAMBDA parsed_table :
             IF Truthy(parsed_table) THEN Append(tables, parsed_table.list) ELSE tables)
    ELSE tables

\* the state of the scan before the first line (lines 115-118)
extract_start ==
    [clean_lines |-> <<>>, current_table_lines |-> <<>>, tables |-> <<>>, in_table |-> FALSE]

\* extract_line handing the lines of a run that is too short back as prose
\* instead of discarding them
extract_line_ShortRunKept(st, line) ==
    Bind(strip(line), LAMBDA stripped_line :
        IF IsTableRow(stripped_line)
        THEN [st EXCEPT !.in_table = TRUE,
                        !.current_table_lines =
                            Append(IF st.in_table THEN @ ELSE <<>>, stripped_line)]
        ELSE IF IsSeparatorLine(stripped_line)
        THEN IF st.in_table
             THEN [st EXCEPT !.current_table_lines = Append(@, stripped_line)]
             ELSE st
        ELSE Bind(IF st.in_table
                  THEN [st EXCEPT !.tables = close_table(@, st.current_table_lines),
                                 !.clean_lines =
                                     IF Len(st.current_table_lines) < 3
                                     THEN @ \o st.current_table_lines ELSE @,
                                  !.current_table_lines = <<>>,
                                  !.in_table = FALSE]
                  ELSE st,
                  LAMBDA closed :
                      IF stripped_line # <<>>
                      THEN [closed EXCEPT !.clean_lines = Append(@, line)]
                      ELSE closed))

\* one iteration of the loop over the lines (lines 120-147)
extract_line(st, line) ==
    Bind(strip(line), LAMBDA stripped_line :
        IF IsTableRow(stripped_line)
        THEN [st EXCEPT !.in_table = TRUE,
                        !.current_table_lines =
                            Append(IF st.in_table THEN @ ELSE <<>>, stripped_line)]
        ELSE IF IsSeparatorLine(stripped_line)
        THEN IF st.in_table
             THEN [st EXCEPT !.current_table_lines = Append(@, stripped_line)]
             ELSE st
        ELSE Bind(IF st.in_table
                  THEN [st EXCEPT !.tables = close_table(@, st.current_table_lines),
                                  !.current_table_lines = <<>>,
                                  !.in_table = FALSE]
                  ELSE st,
                  LAMBDA closed :
                      IF stripped_line # <<>>
                      THEN [closed EXCEPT !.clean_lines = Append(@, line)]
                      ELSE closed))

\* the loop over the lines, from the i-th line on
RECURSIVE extract_loop(_, _, _)
extract_loop(st, lines, i) ==
    IF i > Len(lines) THEN st
    ELSE Bind(extract_line(st, lines[i]), LAMBDA next : extract_loop(next, lines, i + 1))

extract_tables_from_text(text) ==
    Bind(split(text, "\n"), LAMBDA lines :
        Bind(extract_loop(extract_start, lines, 1), LAMBDA st :
            [clean_text |-> join(st.clean_lines, "\n"),
             tables |-> IF st.in_table THEN close_table(st.tables, st.current_table_lines)
                        ELSE st.tables]))

----------------------------------------------------------------------------
(* parse_report_sections: main.py 160-250 *)

\* patterns_to_check without the nine emphasised entries
patterns_to_check_NoEmphasis(section_name) ==
    [k \in 1..9 |-> <<(<<"1", "2", "3", "4", "5", "6", "7", "8", "9">>)[k], ".", " ">>
                    \o section_name]
    \o <<section_name>>

\* the 19 entries of patterns_to_check for one section name (lines 193-213)
patterns_to_check(section_name) ==
    [k \in 1..9 |-> <<(<<"1", "2", "3", "4", "5", "6", "7", "8", "9">>)[k], ".", " ">>
                    \o section_name]
    \o [k \in 1..9 |-> <<(<<"1", "2", "3", "4", "5", "6", "7", "8", "9">>)[k], ".", " ", "*", "*">>
                       \o section_name \o <<"*", "*">>]
    \o <<section_name>>

\* the header test without its endswith clause
is_header_of_NoSuffix(line, section_name) ==
    \/ Bind(patterns_to_check(section_name), LAMBDA patterns :
           \E k \in 1..Len(patterns) : startswith(line, patterns[k]))
    \/ strip(line) = section_name

\* the header test of lines 215-217 for one section name
is_header_of(line, section_name) ==
    \/ Bind(patterns_to_check(section_name), LAMBDA patterns :
           \E k \in 1..Len(patterns) : startswith(line, patterns[k]))
    \/ strip(line) = section_name
    \/ endswith(strip(line), section_name)

\* found_section when the loop over the names has no break: the last name
\* whose forms match
found_section_LastMatch(line) ==
    IF \E k \in 1..Len(section_names) : is_header_of(line, section_names[k])
    THEN CHOOSE k \in 1..Len(section_names) :
             /\ is_header_of(line, section_names[k])
             /\ \A j \in (k + 1)..Len(section_names) : ~is_header_of(line, section_names[j])
    ELSE 0

\* found_section after the loop of lines 190-219, as an index into
\* section_names; 0 stands for None
found_section(line) ==
    IF \E k \in 1..Len(section_names) : is_header_of(line, section_names[k])
    THEN CHOOSE k \in 1..Len(section_names) :
             /\ is_header_of(line, section_names[k])
             /\ \A j \in 1..(k - 1) : ~is_header_of(line, section_names[j])
    ELSE 0

\* d[k] = v on a dict
dict_set(d, k, v) == [x \in (DOMAIN d) \cup {k} |-> IF x = k THEN v ELSE d[x]]

\* save_section storing the raw section text as prose, not the clean text
\* returned by the table extractor
save_section_RawProse(st) ==
    IF st.current_section # 0 /\ st.current_content # <<>>
    THEN Bind(strip(join(st.current_content, "\n")), LAMBDA raw_text :
             Bind(extract_tables_from_text(raw_text), LAMBDA r :
                 [st EXCEPT
                     !.sections = dict_set(@, section_names[st.current_section], raw_text),
                     !.section_tables =
                         dict_set(@, section_names[st.current_section],
                                  IF r.tables # <<>> THEN Some(r.tables) ELSE None)]))
    ELSE st

\* save_section keeping what an earlier occurrence of the section stored
save_section_KeepsEarlier(st) ==
    IF st.current_section # 0 /\ st.current_content # <<>>
       /\ section_names[st.current_section] \notin DOMAIN st.sections
    THEN Bind(strip(join(st.current_content, "\n")), LAMBDA raw_text :
             Bind(extract_tables_from_text(raw_text), LAMBDA r :
                 [st EXCEPT
                     !.sections = dict_set(@, section_names[st.current_section], r.clean_text),
                     !.section_tables =
                         dict_set(@, section_names[st.current_section],
                                  IF r.tables # <<>> THEN Some(r.tables) ELSE None)]))
    ELSE st

\* save_section storing the list of tables as returned, empty or not
save_section_StoresEmptyList(st) ==
    IF st.current_section # 0 /\ st.current_content # <<>>
    THEN Bind(strip(join(st.current_content, "\n")), LAMBDA raw_text :
             Bind(extract_tables_from_text(raw_text), LAMBDA r :
                 [st EXCEPT
                     !.sections = dict_set(@, section_names[st.current_section], r.clean_text),
                     !.section_tables =
                         dict_set(@, section_names[st.current_section], Some(r.tables))]))
    ELSE st

\* lines 223-227 and 238-242: store the section being accumulated
save_section(st) ==
    IF st.current_section # 0 /\ st.current_content # <<>>
    THEN Bind(strip(join(st.current_content, "\n")), LAMBDA raw_text :
             Bind(extract_tables_from_text(raw_text), LAMBDA r :
                 [st EXCEPT
                     !.sections = dict_set(@, section_names[st.current_section], r.clean_text),
                     !.section_tables =
                         dict_set(@, section_names[st.current_section],
                                  IF r.tables # <<>> THEN Some(r.tables) ELSE None)]))
    ELSE st

\* the state before the first line (lines 174-180); current_section 0 is None
sections_start ==
    [current_section |-> 0, current_content |-> <<>>,
     sections |-> <<>>, section_tables |-> <<>>]

\* sections_line leaving the content buffer as it is when a header is found,
\* so that the lines of a section are carried into the next one
sections_line_KeepsBuffer(st, raw_line) ==
    Bind(strip(raw_line), LAMBDA line :
        IF line = <<>>
        THEN IF st.current_content # <<>>
             THEN [st EXCEPT !.current_content = Append(@, <<>>)]
             ELSE st
        ELSE Bind(found_section(line), LAMBDA found :
                 IF found # 0
                 THEN [save_section(st) EXCEPT !.current_section = found]
                 ELSE IF st.current_section # 0
                 THEN [st EXCEPT !.current_content = Append(@, line)]
                 ELSE st))

\* one iteration of the loop over the lines (lines 182-235)
sections_line(st, raw_line) ==
    Bind(strip(raw_line), LAMBDA line :
        IF line = <<>>
        THEN IF st.current_content # <<>>
             THEN [st EXCEPT !.current_content = Append(@, <<>>)]
             ELSE st
        ELSE Bind(found_section(line), LAMBDA found :
                 IF found # 0
                 THEN [save_section(st) EXCEPT !.current_section = found,
                                               !.current_content = <<>>]
                 ELSE IF st.current_section # 0
                 THEN [st EXCEPT !.current_content = Append(@, line)]
                 ELSE st))

\* the loop over the lines, from the i-th line on
RECURSIVE sections_loop(_, _, _)
sections_loop(st, lines, i) ==
    IF i > Len(lines) THEN st
    ELSE Bind(sections_line(st, lines[i]), LAMBDA next : sections_loop(next, lines, i + 1))

\* the placeholder without the section's name
placeholder_NoName(name) ==
    <<"N","o"," ","c","o","n","t","e","n","t"," ","f","o","u","n","d",".">>

\* f"No content found for {name} section."
placeholder(name) ==
    <<"N","o"," ","c","o","n","t","e","n","t"," ","f","o","u","n","d"," ","f","o","r"," ">>
    \o name \o <<" ","s","e","c","t","i","o","n",".">>

\* ensure_sections filling in the prose of a missing section only, not its
\* tables entry
RECURSIVE ensure_sections_ProseOnly(_, _)
ensure_sections_ProseOnly(st, k) ==
    IF k > Len(section_names) THEN st
    ELSE Bind(IF section_names[k] \notin DOMAIN st.sections
              THEN [st EXCEPT !.sections =
                                  dict_set(@, section_names[k], placeholder(section_names[k]))]
              ELSE st,
              LAMBDA next : ensure_sections_ProseOnly(next, k + 1))

\* ensure_sections giving a missing section an empty list of tables, not None
RECURSIVE ensure_sections_EmptyList(_, _)
ensure_sections_EmptyList(st, k) ==
    IF k > Len(section_names) THEN st
    ELSE Bind(IF section_names[k] \notin DOMAIN st.sections
              THEN [st EXCEPT !.sections =
                                  dict_set(@, section_names[k], placeholder(section_names[k])),
                          !.section_tables = dict_set(@, section_names[k], Some(<<>>))]
              ELSE st,
              LAMBDA next : ensure_sections_EmptyList(next, k + 1))

\* lines 244-248: every expected section is present, from the k-th name on
RECURSIVE ensure_sections(_, _)
ensure_sections(st, k) ==
    IF k > Len(section_names) THEN st
    ELSE Bind(IF section_names[k] \notin DOMAIN st.sections
              THEN [st EXCEPT !.sections =
                                  dict_set(@, section_names[k], placeholder(section_names[k])),
                          !.section_tables = dict_set(@, section_names[k], None)]
              ELSE st,
              LAMBDA next : ensure_sections(next, k + 1))

parse_report_sections(report_text) ==
    Bind(split(report_text, "\n"), LAMBDA lines :
        Bind(save_section(sections_loop(sections_start, lines, 1)), LAMBDA last :
            Bind(ensure_sections(last, 1), LAMBDA st :
                [sections |-> st.sections, section_tables |-> st.section_tables])))

----------------------------------------------------------------------------
(* state *)

VARIABLES
    pc,              \* position of the caller (of main, in a run)
    text,            \* the text handed to the function under analysis
    parsed_table,    \* result of parse_markdown_table(text)
    extracted,       \* result of extract_tables_from_text(text)
    reextracted,     \* result of extract_tables_from_text on extracted.clean_text
    found,           \* found_section for the line in text, as a catalog index
                     \* (0 is None)
    parsed,          \* the pair returned by parse_report_sections
                     \* (content_sections, tables in main)
    all_data,        \* main: the sheets read from the workbook, in order
    key_configured,  \* main: OPENAI_API_KEY is truthy
    request,         \* main: what the chat completion request does
    response,        \* main: the message content of a successful response
    sheet_i,         \* main: index of the next sheet of the chart loop
    images,          \* main: images, per sheet (0 is None)
    network_charts,  \* main: network_charts, per sheet (0 is None)
    files,           \* main: the chart files that exist below output/
    full_report,     \* main: the string returned by call_llm
    section_images,  \* main: section_images, per section name
    llm_calls,       \* main: number of calls of call_llm
    docx_calls,      \* main: number of calls of generate_docx_report
    prompt,          \* main: the value returned by build_combined_prompt
    document         \* generate_docx_report: the blocks added to doc, and
                     \* whether doc.save was reached

func_vars == <<text, parsed_table, extracted, reextracted, found>>

main_vars == <<all_data, key_configured, request, response, sheet_i, images,
               network_charts, files, full_report, section_images, llm_calls,
               docx_calls, prompt, document>>

vars == <<pc, func_vars, parsed, main_vars>>

\* value of a result variable before the call that sets it
NoExtract == [clean_text |-> <<>>, tables |-> <<>>]
NoSections == [sections |-> <<>>, section_tables |-> <<>>]
NoPrompt == [combined_data_text |-> <<>>, format_headers |-> <<>>]
NoDocument == [blocks |-> <<>>, saved |-> FALSE]

\* the variables of main while no run is modelled
MainIdle ==
    /\ all_data = <<>>
    /\ key_configured = FALSE
    /\ request = "ok"
    /\ response = <<>>
    /\ sheet_i = 0
    /\ images = <<>>
    /\ network_charts = <<>>
    /\ files = {}
    /\ full_report = <<>>
    /\ section_images = <<>>
    /\ llm_calls = 0
    /\ docx_calls = 0
    /\ prompt = NoPrompt
    /\ document = NoDocument

----------------------------------------------------------------------------
(* inputs of the table extractor *)

\* most lines of a text block
MaxTableLines == 5

\* the lines the text blocks are made of
TableLinePool == <<
    \* '| a | b |'
    <<"|"," ","a"," ","|"," ","b"," ","|">>,
    \* '|a|a|'
    <<"|","a","|","a","|">>,
    \* '|---|---|'
    <<"|","-","-","-","|","-","-","-","|">>,
    \* ' | 1 | 2 | '
    <<" ","|"," ","1"," ","|"," ","2"," ","|"," ">>,
    \* '|5|6|7|'
    <<"|","5","|","6","|","7","|">>,
    \* '|x|'
    <<"|","x","|">>,
    \* '|---'
    <<"|","-","-","-">>,
    \* '  pad  '
    <<" "," ","p","a","d"," "," ">>,
    \* ''
    <<>>
>>

\* the text whose lines are the pool lines picked by f
text_of(pool, f) == join([i \in DOMAIN f |-> pool[f[i]]], "\n")

InitTables ==
    /\ pc = "input"
    /\ \E n \in 0..MaxTableLines : \E f \in [1..n -> 1..Len(TableLinePool)] :
           text = text_of(TableLinePool, f)
    /\ parsed_table = None
    /\ extracted = NoExtract
    /\ reextracted = NoExtract
    /\ found = 0
    /\ parsed = NoSections
    /\ MainIdle

\* parse_markdown_table(text) is called
CallParseMarkdownTable ==
    /\ pc = "input"
    /\ parsed_table' = parse_markdown_table(text)
    /\ pc' = "parsed"
    /\ UNCHANGED <<text, extracted, reextracted, found, parsed, main_vars>>

\* extract_tables_from_text(text) is called
CallExtractTables ==
    /\ pc = "input"
    /\ extracted' = extract_tables_from_text(text)
    /\ pc' = "extracted"
    /\ UNCHANGED <<text, parsed_table, reextracted, found, parsed, main_vars>>

\* extract_tables_from_text is called on the clean text it returned
CallExtractTablesAgain ==
    /\ pc = "extracted"
    /\ reextracted' = extract_tables_from_text(extracted.clean_text)
    /\ pc' = "reextracted"
    /\ UNCHANGED <<text, parsed_table, extracted, found, parsed, main_vars>>

NextTables == CallParseMarkdownTable \/ CallExtractTables \/ CallExtractTablesAgain

SpecTables == InitTables /\ [][NextTables]_vars

----------------------------------------------------------------------------
(* inputs of the section splitter *)

\* most blocks of a report text
MaxBlocks == 4

\* the blocks the report texts are made of: header lines in their accepted
\* forms, prose lines, a blank line, a table region, a run that is too short
SectionBlockPool == <<
    \* '1. Attack Indicators'
    <<<<"1","."," ","A","t","t","a","c","k"," ","I","n","d","i","c","a","t","o","r","s">>>>,
    \* '2. **Honeypot Attack Trends**'
    <<<<"2","."," ","*","*","H","o","n","e","y","p","o","t"," ","A","t","t","a","c","k"," ","T","r","e","n","d","s","*","*">>>>,
    \* 'Hashes'
    <<<<"H","a","s","h","e","s">>>>,
    \* 'Some intro text ending in Hashes'
    <<<<"S","o","m","e"," ","i","n","t","r","o"," ","t","e","x","t"," ","e","n","d","i","n","g"," ","i","n"," ","H","a","s","h","e","s">>>>,
    \* 'Hashes were observed in many samples.'
    <<<<"H","a","s","h","e","s"," ","w","e","r","e"," ","o","b","s","e","r","v","e","d"," ","i","n"," ","m","a","n","y"," ","s","a","m","p","l","e","s",".">>>>,
    \* 'Summary line one.'
    <<<<"S","u","m","m","a","r","y"," ","l","i","n","e"," ","o","n","e",".">>>>,
    \* '  Second line.  '
    <<<<" "," ","S","e","c","o","n","d"," ","l","i","n","e","."," "," ">>>>,
    \* ''
    <<<<>>>>,
    \* '| IP | Sev |' / '|---|---|' / '| 1.2.3.4 | High |'
    <<<<"|"," ","I","P"," ","|"," ","S","e","v"," ","|">>,
      <<"|","-","-","-","|","-","-","-","|">>,
      <<"|"," ","1",".","2",".","3",".","4"," ","|"," ","H","i","g","h"," ","|">>>>,
    \* '| IP | Sev |' / '|---|---|'
    <<<<"|"," ","I","P"," ","|"," ","S","e","v"," ","|">>,
      <<"|","-","-","-","|","-","-","-","|">>>>
>>

\* the concatenation of a sequence of sequences
RECURSIVE flatten(_)
flatten(qs) == IF qs = <<>> THEN <<>> ELSE Head(qs) \o flatten(Tail(qs))

\* the text whose lines are those of the pool blocks picked by f
text_of_blocks(pool, f) == join(flatten([i \in DOMAIN f |-> pool[f[i]]]), "\n")

InitSections ==
    /\ pc = "input"
    /\ \E n \in 0..MaxBlocks : \E f \in [1..n -> 1..Len(SectionBlockPool)] :
           text = text_of_blocks(SectionBlockPool, f)
    /\ parsed_table = None
    /\ extracted = NoExtract
    /\ reextracted = NoExtract
    /\ found = 0
    /\ parsed = NoSections
    /\ MainIdle

\* parse_report_sections(text) is called
CallParseReportSections ==
    /\ pc = "input"
    /\ parsed' = parse_report_sections(text)
    /\ pc' = "sectioned"
    /\ UNCHANGED <<func_vars, main_vars>>

NextSections == CallParseReportSections

SpecSections == InitSections /\ [][NextSections]_vars

----------------------------------------------------------------------------
(* call_llm: main.py 63-84 *)

\* the string returned when OPENAI_API_KEY is falsy (line 66)
error_no_key ==
    <<"[","E","r","r","o","r",":"," ","A","P","I"," ","k","e","y"," ","n","o","t"," ","c","o","n","f","i","g","u","r","e","d","]">>

\* the string returned when the request raises (line 84)
error_request_failed ==
    <<"[","E","r","r","o","r",":"," ","F","a","i","l","e","d"," ","t","o"," ","g","e","n","e","r","a","t","e"," ","r","e","p","o","r","t",".","]">>

\* call_llm: configured is the truth value of OPENAI_API_KEY, outcome is "ok"
\* when the request returns a message with the given content and "raises"
\* when anything in the try block raises
call_llm(configured, outcome, content) ==
    IF ~configured THEN error_no_key
    ELSE IF outcome = "ok" THEN strip(content)
    ELSE error_request_failed

----------------------------------------------------------------------------
(* build_combined_prompt: main.py 10-60 *)

\* str(n) of a natural number n: its decimal digits
RECURSIVE str_of_int(_)
str_of_int(n) ==
    IF n < 10 THEN <<(<<"0", "1", "2", "3", "4", "5", "6", "7", "8", "9">>)[n + 1]>>
    ELSE str_of_int(n \div 10)
         \o <<(<<"0", "1", "2", "3", "4", "5", "6", "7", "8", "9">>)[(n % 10) + 1]>>

\* str(row) of a record of a sheet; a record is told from the others by a
\* number, and is rendered as that number between the braces of a dict
str_of_row(row) == <<"{">> \o str_of_int(row) \o <<"}">>

\* the name of the i-th sheet of the workbook
sheet_name(i) == <<"S">> \o str_of_int(i)

\* records[:15] without the slice
limited_records_NoLimit(records) == records

\* records[:15] (line 14)
limited_records(records) ==
    SubSeq(records, 1, IF Len(records) < 15 THEN Len(records) ELSE 15)

\* the entries one sheet appends to combined_rows (lines 13-17)
sheet_rows(i, df) ==
    Bind(limited_records(df.rows), LAMBDA records :
        <<<<"\n", "-", "-", "-", " ">> \o sheet_name(i) \o <<" ", "-", "-", "-">>>>
        \o [k \in 1..Len(records) |->
               str_of_int(k) \o <<".", " ">> \o str_of_row(records[k])])

\* combined_rows after the sheets from the i-th on are added (lines 11-17)
RECURSIVE combined_rows(_, _)
combined_rows(all_sheets, i) ==
    IF i > Len(all_sheets) THEN <<>>
    ELSE Bind(sheet_rows(i, all_sheets[i]), LAMBDA rows :
             rows \o combined_rows(all_sheets, i + 1))

\* the prompt: the text of the data rows placed in the template, and the
\* section header lines the template tells the model to emit (lines 18-60);
\* the rest of the template is fixed prose
build_combined_prompt(all_sheets) ==
    [combined_data_text |-> join(combined_rows(all_sheets, 1), "\n"),
     format_headers |-> [k \in 1..Len(section_names) |->
                            str_of_int(k) \o <<".", " ">> \o section_names[k]] \o <<>>]

----------------------------------------------------------------------------
(* generate_docx_report: report_generator.py 500-585 *)

\* one block added to the document
block(kind, arg) == [kind |-> kind, arg |-> arg]

\* the table blocks of a section (lines 567-575): one per table of the list
table_blocks(table) ==
    IF Truthy(table)
    THEN SelectSeq([i \in 1..Len(table.list) |-> block("table", table.list[i])] \o <<>>,
                   LAMBDA b : b.arg # <<>>)
    ELSE <<>>

\* one iteration of the loop over the section names (lines 558-578);
\* add_image raises when the chart is not a file (lines 81-82)
docx_section(doc, section_name, content, section_charts, tables, existing) ==
    IF doc.raised THEN doc
    ELSE Bind(Append(doc.blocks, block("heading", section_name)), LAMBDA headed :
             IF section_charts[section_name] # <<>>
                /\ section_charts[section_name] \notin existing
             THEN [blocks |-> headed, raised |-> TRUE]
             ELSE [blocks |-> headed
                              \o (IF section_charts[section_name] # <<>>
                                  THEN <<block("image", section_charts[section_name])>>
                                  ELSE <<>>)
                              \o table_blocks(tables[section_name])
                              \o (IF content[section_name] # <<>>
                                  THEN <<block("paragraph", content[section_name])>>
                                  ELSE <<>>),
                   raised |-> FALSE])

\* the loop over the section names, from the k-th name on
RECURSIVE docx_loop(_, _, _, _, _, _)
docx_loop(doc, k, content, section_charts, tables, existing) ==
    IF k > Len(section_names) THEN doc
    ELSE Bind(docx_section(doc, section_names[k], content, section_charts, tables, existing),
              LAMBDA next : docx_loop(next, k + 1, content, section_charts, tables, existing))

\* generate_docx_report: the blocks added to doc, and whether doc.save was
\* reached; existing is the set of chart paths that are files
generate_docx_report(content, section_charts, tables, existing) ==
    Bind(docx_loop([blocks |-> <<block("cover", <<>>), block("toc", <<>>)>>,
                    raised |-> FALSE],
                   1, content, section_charts, tables, existing),
         LAMBDA doc :
             IF doc.raised THEN [blocks |-> doc.blocks, saved |-> FALSE]
             ELSE [blocks |-> Append(doc.blocks, block("about", <<>>)), saved |-> TRUE])

----------------------------------------------------------------------------
(* the run: module import and main(), main.py 1-7 and 253-329 *)

\* the names bound at module level by config.py
config_names ==
    {"os", "load_dotenv", "OPENROUTER_API_KEY", "LLM_MODEL", "OPENROUTER_BASE_URL"}

\* the names main.py imports from config (line 4)
names_from_config == {"OPENAI_API_KEY", "LLM_MODEL"}

\* most sheets of the workbook
MaxSheets == 2

\* a sheet of the run: its records, and as far as the chart loop goes, per chart, "none" when the sheet
\* lacks the chart's columns, "drawn" when the generator writes the image and
\* "skipped" when it returns without writing it (no valid dates, no valid ports)
SheetKinds ==
    [trend : {"none", "drawn", "skipped"}, ports : {"none", "drawn", "skipped"},
     rows : {<<1, 2>>}]

\* the model responses of the runs, as blocks of SectionBlockPool: an empty
\* response, prose without a header, and two reports with sections
ResponseShapes == {<<>>, <<6, 9>>, <<1, 6, 8, 2, 9>>, <<3, 10, 5, 7>>}

\* the path of the chart of the given kind of the i-th sheet; no path is None
chart_path(kind, i) == <<kind, i>>
NoPath == <<>>

\* the first truthy entry of a per-sheet list of paths, or None (lines 298-309)
first_chart(paths) ==
    IF \E i \in 1..Len(paths) : paths[i] # NoPath
    THEN paths[CHOOSE i \in 1..Len(paths) :
                   paths[i] # NoPath /\ \A j \in 1..(i - 1) : paths[j] = NoPath]
    ELSE NoPath

\* the image assigned to a section (lines 312-320)
section_image(section_name, trend_chart_path, network_chart_path) ==
    IF contains(section_name, section_names[2]) THEN trend_chart_path
    ELSE IF contains(section_name, section_names[3]) THEN network_chart_path
    ELSE IF contains(section_name, <<"A","t","t","a","c","k"," ","T","r","e","n","d","s">>) THEN trend_chart_path
    ELSE NoPath

InitMain ==
    /\ pc = "main"
    /\ \E n \in 1..MaxSheets : all_data \in [1..n -> SheetKinds]
    /\ key_configured \in BOOLEAN
    /\ request \in {"ok", "raises"}
    /\ \E f \in ResponseShapes : response = text_of_blocks(SectionBlockPool, f)
    /\ sheet_i = 0
    /\ images = <<>>
    /\ network_charts = <<>>
    /\ files = {}
    /\ full_report = <<>>
    /\ section_images = <<>>
    /\ llm_calls = 0
    /\ docx_calls = 0
    /\ prompt = NoPrompt
    /\ document = NoDocument
    /\ text = <<>>
    /\ found = 0
    /\ parsed_table = None
    /\ extracted = NoExtract
    /\ reextracted = NoExtract
    /\ parsed = NoSections

\* the process loads main.py: its import statements run (lines 1-7)
ImportModules ==
    /\ pc = "import"
    /\ pc' = IF names_from_config \subseteq config_names THEN "main" ELSE "ImportError"
    /\ UNCHANGED <<func_vars, parsed, main_vars>>

\* main reads the workbook and the analysis period (lines 254-267)
LoadData ==
    /\ pc = "main"
    /\ sheet_i' = 1
    /\ pc' = "charts"
    /\ UNCHANGED <<func_vars, parsed, all_data, key_configured, request, response, images,
                   network_charts, files, full_report, section_images, llm_calls, docx_calls,
                   prompt, document>>

\* one iteration of the chart loop (lines 269-285)
ChartSheet ==
    /\ pc = "charts"
    /\ sheet_i <= Len(all_data)
    /\ images' = Append(images, IF all_data[sheet_i].trend # "none"
                                THEN chart_path("trend", sheet_i) ELSE NoPath)
    /\ network_charts' = Append(network_charts, IF all_data[sheet_i].ports # "none"
                                                THEN chart_path("network", sheet_i) ELSE NoPath)
    /\ files' = files
                \cup (IF all_data[sheet_i].trend = "drawn"
                      THEN {chart_path("trend", sheet_i)} ELSE {})
                \cup (IF all_data[sheet_i].ports = "drawn"
                      THEN {chart_path("network", sheet_i)} ELSE {})
    /\ sheet_i' = sheet_i + 1
    /\ UNCHANGED <<pc, func_vars, parsed, all_data, key_configured, request, response,
                   full_report, section_images, llm_calls, docx_calls, prompt, document>>

\* the model call placed inside the chart loop: it does not wait for the
\* last sheet
CallLlm_BeforeChartsEnd ==
    /\ pc = "charts"
    /\ prompt' = build_combined_prompt(all_data)
    /\ full_report' = call_llm(key_configured, request, response)
    /\ llm_calls' = llm_calls + 1
    /\ pc' = "parse"
    /\ UNCHANGED <<func_vars, parsed, all_data, key_configured, request, response, sheet_i,
                   images, network_charts, files, section_images, docx_calls, document>>

\* main builds the prompt and calls the model (lines 287-289)
CallLlm ==
    /\ pc = "charts"
    /\ sheet_i > Len(all_data)
    /\ prompt' = build_combined_prompt(all_data)
    /\ full_report' = call_llm(key_configured, request, response)
    /\ llm_calls' = llm_calls + 1
    /\ pc' = "parse"
    /\ UNCHANGED <<func_vars, parsed, all_data, key_configured, request, response, sheet_i,
                   images, network_charts, files, section_images, docx_calls, document>>

\* main splits the report into sections (lines 291-292)
ParseSections ==
    /\ pc = "parse"
    /\ parsed' = parse_report_sections(full_report)
    /\ pc' = "assign"
    /\ UNCHANGED <<func_vars, main_vars>>

\* main maps the charts to the sections (lines 294-324)
AssignImages ==
    /\ pc = "assign"
    /\ section_images' =
           [n \in DOMAIN parsed.sections |->
               section_image(n, first_chart(images), first_chart(network_charts))]
    /\ pc' = "docx"
    /\ UNCHANGED <<func_vars, parsed, all_data, key_configured, request, response, sheet_i,
                   images, network_charts, files, full_report, llm_calls, docx_calls,
                   prompt, document>>

\* main calls generate_docx_report (lines 326-329); add_image raises when the
\* image of a section is not a file (report_generator.py 81-82, 564-565)
GenerateDocx ==
    /\ pc = "docx"
    /\ docx_calls' = docx_calls + 1
    /\ document' = generate_docx_report(parsed.sections, section_images,
                                        parsed.section_tables, files)
    /\ pc' = IF document'.saved THEN "done" ELSE "crashed"
    /\ UNCHANGED <<func_vars, parsed, all_data, key_configured, request, response, sheet_i,
                   images, network_charts, files, full_report, section_images, llm_calls,
                   prompt>>

NextMain == LoadData \/ ChartSheet \/ CallLlm \/ ParseSections \/ AssignImages \/ GenerateDocx

\* main() from its first statement, with the names of main.py bound
SpecMain == InitMain /\ [][NextMain]_vars

\* the process from its start: python main.py
InitRun ==
    /\ pc = "import"
    /\ \E n \in 1..MaxSheets : all_data \in [1..n -> SheetKinds]
    /\ key_configured \in BOOLEAN
    /\ request \in {"ok", "raises"}
    /\ \E f \in ResponseShapes : response = text_of_blocks(SectionBlockPool, f)
    /\ sheet_i = 0
    /\ images = <<>>
    /\ network_charts = <<>>
    /\ files = {}
    /\ full_report = <<>>
    /\ section_images = <<>>
    /\ llm_calls = 0
    /\ docx_calls = 0
    /\ prompt = NoPrompt
    /\ document = NoDocument
    /\ text = <<>>
    /\ found = 0
    /\ parsed_table = None
    /\ extracted = NoExtract
    /\ reextracted = NoExtract
    /\ parsed = NoSections

\* the import of main.py raises ImportError (see the claim C4 below), so no
\* statement of main() is reached from the process start: the steps of main()
\* are those of SpecMain
NextRun == ImportModules

SpecRun == InitRun /\ [][NextRun]_vars

----------------------------------------------------------------------------
(* inputs of the header test of the section splitter *)

\* the ordinal markers "1. " to "9. "
ordinal(k) == <<(<<"1", "2", "3", "4", "5", "6", "7", "8", "9">>)[k], ".", " ">>

\* the lines given to the header test: for every catalog name the numbered,
\* emphasised and bare forms, a line ending with the name, a line starting
\* with the name, lines made of two names with and without an ordinal, and
\* some other lines
HeaderLinePool ==
    {ordinal(k) \o section_names[n] : k \in 1..9, n \in 1..Len(section_names)}
    \cup {ordinal(k) \o <<"*", "*">> \o section_names[n] \o <<"*", "*">> :
              k \in 1..9, n \in 1..Len(section_names)}
    \cup {section_names[n] : n \in 1..Len(section_names)}
    \cup {<<"S","o","m","e"," ","i","n","t","r","o"," ","t","e","x","t"," ","e","n","d","i","n","g"," ","i","n"," ">> \o section_names[n] :
              n \in 1..Len(section_names)}
    \cup {section_names[n] \o <<" ","w","e","r","e"," ","o","b","s","e","r","v","e","d"," ","i","n"," ","m","a","n","y"," ","s","a","m","p","l","e","s",".">> :
              n \in 1..Len(section_names)}
    \cup {section_names[a] \o <<" ", "a", "n", "d", " ">> \o section_names[b] :
              a, b \in 1..Len(section_names)}
    \cup {ordinal(1) \o section_names[a] \o <<" ", "a", "n", "d", " ">> \o section_names[b] :
              a, b \in 1..Len(section_names)}
    \cup {<<"S","u","m","m","a","r","y"," ","l","i","n","e"," ","o","n","e",".">>,
          <<"|"," ","I","P"," ","|"," ","S","e","v"," ","|">>,
          <<"1","0","."," ","H","a","s","h","e","s">>,
          <<"*","*","H","a","s","h","e","s","*","*">>,
          <<"#","#"," ","9","."," ","H","a","s","h","e","s",":">>}

InitHeaders ==
    /\ pc = "input"
    /\ text \in HeaderLinePool
    /\ parsed_table = None
    /\ extracted = NoExtract
    /\ reextracted = NoExtract
    /\ found = 0
    /\ parsed = NoSections
    /\ MainIdle

\* the header test of one iteration of the loop of parse_report_sections
\* over the lines, on a line that is not blank (lines 183-219)
DetectHeader ==
    /\ pc = "input"
    /\ strip(text) # <<>>
    /\ found' = found_section(strip(text))
    /\ pc' = "detected"
    /\ UNCHANGED <<text, parsed_table, extracted, reextracted, parsed, main_vars>>

NextHeaders == DetectHeader

SpecHeaders == InitHeaders /\ [][NextHeaders]_vars

----------------------------------------------------------------------------
(* inputs of the table extractor and the section splitter: texts with more
   than one table region *)

\* most blocks of a text
MaxRegionBlocks == 4

\* the blocks the texts are made of: two section headers, a region with a
\* ragged row, a second region, a prose line, a blank line, a short run and a
\* separator of three '=' marks
RegionBlockPool == <<
    \* '5. Top IP Addresses'
    <<<<"5","."," ","T","o","p"," ","I","P"," ","A","d","d","r","e","s","s","e","s">>>>,
    \* '| IP | Sev |' / '|---|---|' / '| 1.2.3.4 | High |' / '| 5.6.7.8 |' / '| 9.9.9.9 | Low |'
    <<<<"|"," ","I","P"," ","|"," ","S","e","v"," ","|">>,
      <<"|","-","-","-","|","-","-","-","|">>,
      <<"|"," ","1",".","2",".","3",".","4"," ","|"," ","H","i","g","h"," ","|">>,
      <<"|"," ","5",".","6",".","7",".","8"," ","|">>,
      <<"|"," ","9",".","9",".","9",".","9"," ","|"," ","L","o","w"," ","|">>>>,
    \* '| User | Hits |' / '|---|---|' / '| root | 12 |'
    <<<<"|"," ","U","s","e","r"," ","|"," ","H","i","t","s"," ","|">>,
      <<"|","-","-","-","|","-","-","-","|">>,
      <<"|"," ","r","o","o","t"," ","|"," ","1","2"," ","|">>>>,
    \* 'Summary line one.'
    <<<<"S","u","m","m","a","r","y"," ","l","i","n","e"," ","o","n","e",".">>>>,
    \* ''
    <<<<>>>>,
    \* '| IP | Sev |' / '|---|---|'
    <<<<"|"," ","I","P"," ","|"," ","S","e","v"," ","|">>,
      <<"|","-","-","-","|","-","-","-","|">>>>,
    \* '6. Credential Patterns'
    <<<<"6","."," ","C","r","e","d","e","n","t","i","a","l"," ","P","a","t","t","e","r","n","s">>>>,
    \* '|===|'
    <<<<"|","=","=","=","|">>>>
>>

InitRegions ==
    /\ pc = "input"
    /\ \E n \in 0..MaxRegionBlocks : \E f \in [1..n -> 1..Len(RegionBlockPool)] :
           text = text_of_blocks(RegionBlockPool, f)
    /\ parsed_table = None
    /\ extracted = NoExtract
    /\ reextracted = NoExtract
    /\ found = 0
    /\ parsed = NoSections
    /\ MainIdle

NextRegions ==
    \/ CallParseMarkdownTable
    \/ CallExtractTables
    \/ CallExtractTablesAgain
    \/ CallParseReportSections

SpecRegions == InitRegions /\ [][NextRegions]_vars

----------------------------------------------------------------------------
(* inputs of build_combined_prompt *)

\* most records of a sheet
MaxRows == 17

\* the records of a sheet: numbered upwards or downwards
RowLists ==
    {[i \in 1..n |-> i] : n \in 0..MaxRows} \cup {[i \in 1..n |-> n + 1 - i] : n \in 0..MaxRows}

\* a sheet given to build_combined_prompt: no chart is drawn from it
PromptSheets == [trend : {"none"}, ports : {"none"}, rows : RowLists]

InitPrompt ==
    /\ pc = "input"
    /\ \E n \in 0..MaxSheets : all_data \in [1..n -> PromptSheets]
    /\ key_configured = FALSE
    /\ request = "ok"
    /\ response = <<>>
    /\ sheet_i = 0
    /\ images = <<>>
    /\ network_charts = <<>>
    /\ files = {}
    /\ full_report = <<>>
    /\ section_images = <<>>
    /\ llm_calls = 0
    /\ docx_calls = 0
    /\ prompt = NoPrompt
    /\ document = NoDocument
    /\ text = <<>>
    /\ found = 0
    /\ parsed_table = None
    /\ extracted = NoExtract
    /\ reextracted = NoExtract
    /\ parsed = NoSections

\* build_combined_prompt(all_data) is called
CallBuildCombinedPrompt ==
    /\ pc = "input"
    /\ prompt' = build_combined_prompt(all_data)
    /\ pc' = "prompted"
    /\ UNCHANGED <<func_vars, parsed, all_data, key_configured, request, response, sheet_i,
                   images, network_charts, files, full_report, section_images, llm_calls,
                   docx_calls, document>>

NextPrompt == CallBuildCombinedPrompt

SpecPrompt == InitPrompt /\ [][NextPrompt]_vars

----------------------------------------------------------------------------
(* vocabulary of the claims about tables *)

\* the physical lines of the text under analysis
text_lines == split(text, "\n")

\* the set of elements of a sequence
Range(q) == {q[i] : i \in DOMAIN q}

\* a separator candidate: starts with the delimiter and is made of '-' and '='
\* runs between delimiters
IsSeparatorCandidate(line) ==
    /\ startswith(line, <<"|">>)
    /\ \A i \in 1..Len(line) : line[i] \in {"|", "-", "=", ":", " "}
    /\ \E i \in 1..Len(line) : line[i] \in {"-", "="}

\* a table line: a table-row candidate or a separator line
IsTableLine(line) == IsTableRow(strip(line)) \/ IsSeparatorLine(strip(line))

\* ls is a table region laid out as header, separator, data rows
IsRegion(ls) ==
    /\ Len(ls) >= 3
    /\ IsTableRow(strip(ls[1]))
    /\ IsSeparatorCandidate(strip(ls[2]))
    /\ \A i \in 3..Len(ls) : IsTableRow(strip(ls[i]))

\* the column names of a region and the cells of its i-th line
region_headers(ls) == cells(strip(ls[1]))
region_cells(ls, i) == cells(strip(ls[i]))

\* the lines of the region, from the third on, that have the header's cell count
matching_rows(ls) ==
    SelectSeq([i \in 1..(Len(ls) - 2) |-> i + 2],
              LAMBDA i : Len(region_cells(ls, i)) = Len(region_headers(ls)))

\* rec maps the name of every column to the cell of that column
MapsEveryColumn(rec, headers, cs) ==
    /\ DOMAIN rec = Range(headers)
    /\ \A c \in 1..Len(headers) : rec[headers[c]] = cs[c]

\* rec maps every column name to the cell of the last column of that name
MapsLastColumn(rec, headers, cs) ==
    /\ DOMAIN rec = Range(headers)
    /\ \A c \in 1..Len(headers) :
           (\A d \in (c + 1)..Len(headers) : headers[d] # headers[c])
               => rec[headers[c]] = cs[c]

\* table holds one record per matching row of the region, in the rows' order
IsTableOfRegion(table, ls) ==
    /\ Len(table) = Len(matching_rows(ls))
    /\ \A r \in 1..Len(table) :
           MapsLastColumn(table[r], region_headers(ls), region_cells(ls, matching_rows(ls)[r]))

----------------------------------------------------------------------------
(* C5 *)

\* C5 as stated: for a region of header, separator and data rows that all have
\* the header's cell count, the table holds one record per data row, in row
\* order, and each record maps the i-th header name to the i-th trimmed cell.
C5_IthNameToIthCell ==
    (pc = "parsed" /\ IsRegion(text_lines)
        /\ Len(matching_rows(text_lines)) = Len(text_lines) - 2)
    => /\ ~parsed_table.isNone
       /\ Len(parsed_table.list) = Len(text_lines) - 2
       /\ \A r \in 1..(Len(text_lines) - 2) :
              MapsEveryColumn(parsed_table.list[r], region_headers(text_lines),
                              region_cells(text_lines, r + 2))

\* C5 amended: for such a region the table holds one record per data row, in
\* row order, and each record maps every header name to the trimmed cell of
\* the last column bearing that name (the i-th cell when the header names are
\* pairwise distinct).
C5_OneRecordPerRow ==
    (pc = "parsed" /\ IsRegion(text_lines)
        /\ Len(matching_rows(text_lines)) = Len(text_lines) - 2)
    => /\ ~parsed_table.isNone
       /\ Len(parsed_table.list) = Len(text_lines) - 2
       /\ \A r \in 1..(Len(text_lines) - 2) :
              MapsLastColumn(parsed_table.list[r], region_headers(text_lines),
                             region_cells(text_lines, r + 2))

\* a region with distinct header names and two data rows has been parsed
C5_Witness ==
    /\ pc = "parsed"
    /\ IsRegion(text_lines)
    /\ Len(text_lines) >= 4
    /\ Len(matching_rows(text_lines)) = Len(text_lines) - 2
    /\ Cardinality(Range(region_headers(text_lines))) = Len(region_headers(text_lines))
    /\ region_cells(text_lines, 3) # region_cells(text_lines, 4)
    /\ Len(parsed_table.list) = 2

----------------------------------------------------------------------------
(* C6 *)

\* C6: in a table region a data row whose cell count differs from the
\* header's is dropped, and the table holds exactly the other data rows, in
\* their order, whenever at least one of them exists.
C6_RaggedRowDropped ==
    (pc = "parsed" /\ IsRegion(text_lines) /\ matching_rows(text_lines) # <<>>)
    => /\ ~parsed_table.isNone
       /\ IsTableOfRegion(parsed_table.list, text_lines)

\* a region with a ragged row between two kept rows has been parsed
C6_Witness ==
    /\ pc = "parsed"
    /\ IsRegion(text_lines)
    /\ Len(text_lines) = 5
    /\ matching_rows(text_lines) = <<3, 5>>
    /\ region_cells(text_lines, 3) # region_cells(text_lines, 5)
    /\ ~parsed_table.isNone

----------------------------------------------------------------------------
(* C7 *)

\* the non-blank lines of the text, trimmed
region_lines == SelectSeq([i \in 1..Len(text_lines) |-> strip(text_lines[i])],
                          LAMBDA l : l # <<>>)

\* C7: a region of fewer than 3 lines, or one in which no data row has the
\* header's cell count, produces no table; every table returned by
\* extract_tables_from_text holds at least one record.
C7_NoEmptyTable ==
    /\ (pc = "parsed" /\ Len(region_lines) < 3) => parsed_table = None
    /\ (pc = "parsed" /\ IsRegion(text_lines) /\ matching_rows(text_lines) = <<>>)
           => parsed_table = None
    /\ (pc = "extracted"
           /\ Cardinality({i \in 1..Len(text_lines) : IsTableLine(text_lines[i])}) < 3)
           => extracted.tables = <<>>
    /\ (pc = "extracted" /\ IsRegion(text_lines) /\ matching_rows(text_lines) = <<>>)
           => extracted.tables = <<>>
    /\ pc = "extracted" => \A t \in 1..Len(extracted.tables) : extracted.tables[t] # <<>>

\* a region whose only data row is ragged has gone through the extractor
C7_Witness ==
    /\ pc = "extracted"
    /\ IsRegion(text_lines)
    /\ Len(text_lines) >= 3
    /\ matching_rows(text_lines) = <<>>
    /\ extracted.tables = <<>>

----------------------------------------------------------------------------
(* C8 *)

\* C8: running extract_tables_from_text on the clean text it returned gives
\* that clean text back unchanged and no table.
C8_ExtractIdempotent ==
    pc = "reextracted"
    => /\ reextracted.clean_text = extracted.clean_text
       /\ reextracted.tables = <<>>

\* a text with a table and prose around it has been extracted twice
C8_Witness ==
    /\ pc = "reextracted"
    /\ extracted.tables # <<>>
    /\ Len(split(extracted.clean_text, "\n")) >= 2
    /\ extracted.clean_text # text

----------------------------------------------------------------------------
(* C9 *)

\* the non-blank lines of the text that are not table lines, trimmed
trimmed_prose_lines ==
    SelectSeq([i \in 1..Len(text_lines) |-> strip(text_lines[i])],
              LAMBDA l : l # <<>> /\ ~IsTableRow(l) /\ ~IsSeparatorLine(l))

\* C9 as stated: the clean text is the non-blank lines outside the tables, in
\* their order, each with leading and trailing whitespace trimmed.  Every
\* table line is counted as part of a table here, which is the reading most
\* favourable to the code.
C9_CleanTextTrimmed ==
    pc = "extracted" => extracted.clean_text = join(trimmed_prose_lines, "\n")

----------------------------------------------------------------------------
(* vocabulary of the claims about sections *)

\* the lines of the text, trimmed as the splitter trims them
trimmed_lines == [i \in 1..Len(text_lines) |-> strip(text_lines[i])]

\* the trimmed lines of the text, and for each line the catalog index of the
\* section it is detected as a header of (0: the line is not a header)
section_view ==
    [lines |-> trimmed_lines \o <<>>,
     headers |-> [i \in 1..Len(text_lines) |->
                     IF trimmed_lines[i] = <<>> THEN 0
                     ELSE found_section(trimmed_lines[i])] \o <<>>]

\* line i is detected as a section header
HeaderAt(v, i) == v.headers[i] # 0

\* the section name line i is a header of
header_name(v, i) == section_names[v.headers[i]]

\* the first header line after line i, or one past the last line
next_header(v, i) ==
    IF \E j \in (i + 1)..Len(v.lines) : HeaderAt(v, j)
    THEN CHOOSE j \in (i + 1)..Len(v.lines) :
             HeaderAt(v, j) /\ \A m \in (i + 1)..(j - 1) : ~HeaderAt(v, m)
    ELSE Len(v.lines) + 1

\* the lines between header line i and the next header
content_of(v, i) == SubSeq(v.lines, i + 1, next_header(v, i) - 1)

\* a sequence without its blank entries
non_blank(q) == SelectSeq(q, LAMBDA l : l # <<>>)

\* a sequence of lines without its leading and trailing blank entries
RECURSIVE drop_blank_ends(_)
drop_blank_ends(q) ==
    IF q = <<>> THEN q
    ELSE IF Head(q) = <<>> THEN drop_blank_ends(Tail(q))
    ELSE IF q[Len(q)] = <<>> THEN drop_blank_ends(SubSeq(q, 1, Len(q) - 1))
    ELSE q

\* line i is the only header line of its section
OnlyHeaderOfItsSection(v, i) ==
    \A j \in 1..Len(v.lines) : (j # i /\ HeaderAt(v, j)) => v.headers[j] # v.headers[i]

\* the lines q are one table region that yields a table
OnlyTable(q) ==
    /\ IsRegion(drop_blank_ends(q))
    /\ matching_rows(drop_blank_ends(q)) # <<>>

\* the lines q are prose lines only, and at least one
OnlyProse(q) ==
    /\ non_blank(q) # <<>>
    /\ \A k \in 1..Len(q) : ~IsTableRow(q[k]) /\ ~IsSeparatorLine(q[k])

\* the set of the catalog's names
CatalogNames == Range(section_names)

\* the fixed placeholder prose of section n: "No content found for n section."
PlaceholderText(n) ==
    <<"N","o"," ","c","o","n","t","e","n","t"," ","f","o","u","n","d"," ","f","o","r"," ">>
    \o n \o <<" ","s","e","c","t","i","o","n",".">>

----------------------------------------------------------------------------
(* C1 *)

\* C1: after parse_report_sections both returned mappings have exactly the 9
\* catalog names as keys.
C1_ExactlyCatalogKeys ==
    pc = "sectioned"
    => /\ DOMAIN parsed.sections = CatalogNames
       /\ DOMAIN parsed.section_tables = CatalogNames
       /\ Cardinality(CatalogNames) = 9

\* a text with one detected section and eight missing ones has been parsed
C1_Witness ==
    /\ pc = "sectioned"
    /\ Bind(section_view, LAMBDA v :
           \E i \in 1..Len(v.lines) : HeaderAt(v, i) /\ OnlyProse(content_of(v, i)))
    /\ Cardinality({n \in CatalogNames : parsed.sections[n] = PlaceholderText(n)}) = 8

----------------------------------------------------------------------------
(* C2 *)

\* C2: when no line of the text is detected as a header, every section has
\* its placeholder prose and a tables value of None.
C2_NoHeaderAllPlaceholders ==
    (pc = "sectioned" /\ Bind(section_view, LAMBDA v : \A i \in 1..Len(v.lines) : ~HeaderAt(v, i)))
    => \A n \in CatalogNames :
           /\ parsed.sections[n] = PlaceholderText(n)
           /\ parsed.section_tables[n] = None

\* a text of prose and a table but no header has been parsed
C2_Witness ==
    /\ pc = "sectioned"
    /\ Bind(section_view, LAMBDA v : \A i \in 1..Len(v.lines) : ~HeaderAt(v, i))
    /\ \E i \in 1..Len(text_lines) : IsTableRow(trimmed_lines[i])
    /\ \E i \in 1..Len(text_lines) :
           trimmed_lines[i] # <<>> /\ ~IsTableRow(trimmed_lines[i])
    /\ parsed.sections[section_names[9]] = PlaceholderText(section_names[9])

----------------------------------------------------------------------------
(* C10 *)

\* C10: a section whose header is detected (once) and whose content is one
\* valid table region has the empty string as prose and a list holding
\* exactly that table; a section whose content is prose lines only has those
\* lines as prose and a tables value of None.
C10_TableOnlyAndProseOnly ==
    pc = "sectioned"
    => Bind(section_view, LAMBDA v :
         \A i \in 1..Len(v.lines) :
           (HeaderAt(v, i) /\ OnlyHeaderOfItsSection(v, i))
           => Bind(content_of(v, i), LAMBDA q :
                /\ OnlyTable(q)
                    => /\ parsed.sections[header_name(v, i)] = <<>>
                       /\ ~parsed.section_tables[header_name(v, i)].isNone
                       /\ Len(parsed.section_tables[header_name(v, i)].list) = 1
                       /\ IsTableOfRegion(parsed.section_tables[header_name(v, i)].list[1],
                                          drop_blank_ends(q))
                /\ OnlyProse(q)
                    => /\ parsed.sections[header_name(v, i)] = join(non_blank(q), "\n")
                       /\ parsed.section_tables[header_name(v, i)] = None))

\* a text with a prose-only section and a table-only section has been parsed
C10_Witness ==
    /\ pc = "sectioned"
    /\ Bind(section_view, LAMBDA v :
         \E i, j \in 1..Len(v.lines) :
           /\ HeaderAt(v, i) /\ OnlyHeaderOfItsSection(v, i) /\ OnlyProse(content_of(v, i))
           /\ HeaderAt(v, j) /\ OnlyHeaderOfItsSection(v, j) /\ OnlyTable(content_of(v, j))
           /\ parsed.sections[header_name(v, j)] = <<>>
           /\ parsed.sections[header_name(v, i)] # <<>>)

----------------------------------------------------------------------------
(* C3 *)

\* the two strings call_llm returns on failure
SentinelNoKey ==
    <<"[","E","r","r","o","r",":"," ","A","P","I"," ","k","e","y"," ","n","o","t"," ","c","o","n","f","i","g","u","r","e","d","]">>
SentinelRequestFailed ==
    <<"[","E","r","r","o","r",":"," ","F","a","i","l","e","d"," ","t","o"," ","g","e","n","e","r","a","t","e"," ","r","e","p","o","r","t",".","]">>

\* the model call of the run has failed
LlmFailed == ~key_configured \/ request # "ok"

\* C3: each string that call_llm returns on failure is one of the two
\* sentinels, matches no accepted header form of any catalog name, and is
\* parsed into the placeholder prose and a tables value of None for every
\* catalog section.
C3_SentinelsParseToPlaceholders ==
    /\ (pc \in {"parse", "assign", "docx", "done", "crashed"} /\ LlmFailed)
       => /\ full_report = (IF key_configured THEN SentinelRequestFailed ELSE SentinelNoKey)
          /\ \A n \in CatalogNames : ~is_header_of(strip(full_report), n)
    /\ (pc \in {"assign", "docx", "done", "crashed"} /\ LlmFailed)
       => \A n \in CatalogNames :
              /\ parsed.sections[n] = PlaceholderText(n)
              /\ parsed.section_tables[n] = None

\* a run whose request raised has parsed the sentinel
C3_Witness ==
    /\ pc = "assign"
    /\ key_configured
    /\ request = "raises"
    /\ full_report = SentinelRequestFailed
    /\ DOMAIN parsed.sections = CatalogNames

----------------------------------------------------------------------------
(* C4 *)

\* the run has ended: no statement is left to execute
RunEnded == pc \in {"ImportError", "done", "crashed"}

\* C4: whatever the model call does, the run does not abort: call_llm has
\* returned a string, the sections have been parsed from it and
\* generate_docx_report has been reached exactly once when the run ends.
C4_RunReachesDocumentWrite ==
    RunEnded
    => /\ pc # "ImportError"
       /\ llm_calls = 1
       /\ DOMAIN parsed.sections = CatalogNames
       /\ docx_calls = 1

----------------------------------------------------------------------------
(* vocabulary of the claims about header lines *)

\* the line is the ordinal k followed by the name
IsNumbered(l, k, name) == l = <<str_of_int(k)[1], ".", " ">> \o name

\* the line is the ordinal k followed by the name between emphasis markers
IsEmphasised(l, k, name) ==
    l = <<str_of_int(k)[1], ".", " ", "*", "*">> \o name \o <<"*", "*">>

\* the line has one of the four accepted header forms of the name: it begins
\* with an ordinal followed by the name, or by the name between emphasis
\* markers, it is the name, or it ends with the name
HasAcceptedForm(l, name) ==
    \/ \E k \in 1..9 : startswith(l, <<str_of_int(k)[1], ".", " ">> \o name)
    \/ \E k \in 1..9 :
           startswith(l, <<str_of_int(k)[1], ".", " ", "*", "*">> \o name \o <<"*", "*">>)
    \/ l = name
    \/ endswith(l, name)

\* the catalog indices whose accepted forms the line has
AcceptedBy(l) == {n \in 1..Len(section_names) : HasAcceptedForm(l, section_names[n])}

\* the least element of a non-empty set of numbers
Least(S) == CHOOSE n \in S : \A m \in S : n <= m

\* the line ends with some catalog name
EndsWithCatalogName(l) == \E n \in 1..Len(section_names) : endswith(l, section_names[n])

----------------------------------------------------------------------------
(* C11 *)

\* C11: for every catalog name N and every ordinal k in 1..9, the lines
\* "k. N", "k. **N**" and "N" are detected as the header of N itself; so is
\* every header line of the prompt template.
C11_FormsDetectedAsOwnSection ==
    pc = "detected"
    => /\ \A n \in 1..Len(section_names) :
              (\/ text = section_names[n]
               \/ \E k \in 1..9 : IsNumbered(text, k, section_names[n])
               \/ \E k \in 1..9 : IsEmphasised(text, k, section_names[n]))
              => found = n
       /\ \A k \in 1..Len(section_names) :
              text = build_combined_prompt(<<>>).format_headers[k] => found = k

\* an emphasised header of the fifth name under another ordinal has been
\* detected as the fifth section
C11_Witness ==
    /\ pc = "detected"
    /\ IsEmphasised(text, 3, section_names[5])
    /\ found = 5

----------------------------------------------------------------------------
(* C12 *)

\* C12: a non-blank line that ends with a catalog name is detected as a
\* header: it is in no section's prose, the prose section accumulated before
\* it ends with the line before it, and the prose after it belongs to the
\* section it starts.
C12_SuffixLineIsHeader ==
    pc = "sectioned"
    => Bind(section_view, LAMBDA v :
         \A i \in 1..Len(v.lines) :
           (v.lines[i] # <<>> /\ EndsWithCatalogName(v.lines[i]))
           => /\ HeaderAt(v, i)
              /\ \A n \in CatalogNames : \A l \in Range(split(parsed.sections[n], "\n")) :
                     l # v.lines[i]
              /\ \A j \in 1..(i - 1) :
                     (/\ HeaderAt(v, j) /\ next_header(v, j) = i
                      /\ OnlyHeaderOfItsSection(v, j) /\ OnlyProse(content_of(v, j)))
                     => parsed.sections[header_name(v, j)]
                            = join(non_blank(content_of(v, j)), "\n")
              /\ (OnlyHeaderOfItsSection(v, i) /\ OnlyProse(content_of(v, i)))
                     => parsed.sections[header_name(v, i)]
                            = join(non_blank(content_of(v, i)), "\n"))

\* a prose section has been closed by a line that only ends with a catalog
\* name, and the prose after that line has been stored under that name
C12_Witness ==
    /\ pc = "sectioned"
    /\ Bind(section_view, LAMBDA v :
         \E j, i \in 1..Len(v.lines) :
           /\ j < i
           /\ HeaderAt(v, j) /\ next_header(v, j) = i
           /\ OnlyHeaderOfItsSection(v, j) /\ OnlyProse(content_of(v, j))
           /\ endswith(v.lines[i], section_names[9])
           /\ ~startswith(v.lines[i], section_names[9])
           /\ OnlyHeaderOfItsSection(v, i) /\ OnlyProse(content_of(v, i))
           /\ parsed.sections[section_names[9]] = join(non_blank(content_of(v, i)), "\n")
           /\ parsed.sections[header_name(v, j)] # PlaceholderText(header_name(v, j)))

----------------------------------------------------------------------------
(* C13 *)

\* C13: when a line has accepted header forms of more than one catalog name,
\* the section found is the first of them in catalog order; a line that
\* starts with a later name and ends with an earlier one is found as the
\* earlier one.
C13_FirstCatalogEntryWins ==
    pc = "detected"
    => /\ Cardinality(AcceptedBy(text)) > 1 => found = Least(AcceptedBy(text))
       /\ \A a, b \in 1..Len(section_names) :
              (a < b /\ startswith(text, section_names[b]) /\ endswith(text, section_names[a]))
              => found = a

\* a line with the numbered form of the last name and the suffix form of the
\* seventh has been found as the seventh
C13_Witness ==
    /\ pc = "detected"
    /\ startswith(text, <<"1", ".", " ">> \o section_names[9])
    /\ endswith(text, section_names[7])
    /\ AcceptedBy(text) = {7, 9}
    /\ found = 7

----------------------------------------------------------------------------
(* C20 *)

\* C20: a line is detected as a header of a catalog name only if it has one
\* of the four accepted forms of that name; a line that begins with the name
\* and goes on with other words is not a header.
C20_OnlyFourForms ==
    (pc = "detected" /\ found # 0) => HasAcceptedForm(text, section_names[found])

----------------------------------------------------------------------------
(* C14 *)

\* all records of the table have the same set of keys
SameKeys(table) == \A r1, r2 \in 1..Len(table) : DOMAIN table[r1] = DOMAIN table[r2]

\* C14: every record of one table has the same set of keys as every other
\* record of that table, for the table parse_markdown_table returns, for
\* every table extract_tables_from_text returns and for every table in the
\* mapping parse_report_sections returns.
C14_RecordsShareKeys ==
    /\ pc = "parsed" => SameKeys(parsed_table.list)
    /\ pc \in {"extracted", "reextracted"}
           => \A t \in 1..Len(extracted.tables) : SameKeys(extracted.tables[t])
    /\ pc = "sectioned"
           => \A n \in DOMAIN parsed.section_tables :
                  \A t \in 1..Len(parsed.section_tables[n].list) :
                      SameKeys(parsed.section_tables[n].list[t])

\* a section whose region has a ragged row between two rows of the header's
\* cell count has been parsed into one table of two records
C14_Witness ==
    /\ pc = "sectioned"
    /\ \E i \in 1..Len(text_lines) : text_lines[i] = <<"|"," ","5",".","6",".","7",".","8"," ","|">>
    /\ ~parsed.section_tables[section_names[5]].isNone
    /\ Len(parsed.section_tables[section_names[5]].list) = 1
    /\ Len(parsed.section_tables[section_names[5]].list[1]) = 2
    /\ DOMAIN parsed.section_tables[section_names[5]].list[1][2] = {<<"I", "P">>, <<"S", "e", "v">>}

----------------------------------------------------------------------------
(* C15 *)

\* for each line of the text, whether it is a table line
table_line_flags == [i \in 1..Len(text_lines) |-> IsTableLine(text_lines[i])] \o <<>>

\* lines a..b are a maximal run of table lines
IsMaximalRun(flags, a, b) ==
    /\ a <= b
    /\ \A i \in a..b : flags[i]
    /\ a = 1 \/ ~flags[a - 1]
    /\ b = Len(flags) \/ ~flags[b + 1]

\* the maximal runs of table lines that are valid table regions: header,
\* separator, and at least one data row of the header's cell count
valid_regions(flags) ==
    {r \in (1..Len(flags)) \X (1..Len(flags)) :
        /\ IsMaximalRun(flags, r[1], r[2])
        /\ IsRegion(SubSeq(text_lines, r[1], r[2]))
        /\ matching_rows(SubSeq(text_lines, r[1], r[2])) # <<>>}

\* C15: two valid table regions separated by at least one line that is not a
\* table line yield two separate tables, in the order of the regions, each
\* holding the records of its own region only.
C15_RegionsYieldSeparateTables ==
    pc = "extracted"
    => Bind(valid_regions(table_line_flags), LAMBDA regions :
         \A r1, r2 \in regions :
           r1[2] < r2[1]
           => \E p, q \in 1..Len(extracted.tables) :
                  /\ p < q
                  /\ IsTableOfRegion(extracted.tables[p], SubSeq(text_lines, r1[1], r1[2]))
                  /\ IsTableOfRegion(extracted.tables[q], SubSeq(text_lines, r2[1], r2[2])))

\* a text of two different regions with a prose line between them has gone
\* through the extractor and has given two tables
C15_Witness ==
    /\ pc = "extracted"
    /\ Cardinality(valid_regions(table_line_flags)) = 2
    /\ \E i \in 1..Len(text_lines) : text_lines[i] = <<"S","u","m","m","a","r","y"," ","l","i","n","e"," ","o","n","e",".">>
    /\ Len(extracted.tables) = 2
    /\ DOMAIN extracted.tables[1][1] = {<<"I", "P">>, <<"S", "e", "v">>}
    /\ DOMAIN extracted.tables[2][1] = {<<"U", "s", "e", "r">>, <<"H", "i", "t", "s">>}

----------------------------------------------------------------------------
(* C16 *)

\* the lines of the data text placed in the prompt
prompt_lines == split(prompt.combined_data_text, "\n")

\* the positions of the labelled source headers among the lines
source_headers(ls) ==
    SelectSeq([i \in 1..Len(ls) |-> i] \o <<>>,
              LAMBDA i : startswith(ls[i], <<"-", "-", "-", " ">>))

\* the line of the i-th sampled row of a source
RowLine(i, row) == str_of_int(i) \o <<".", " ">> \o str_of_row(row)

\* the number of rows sampled from a source of n rows
Sampled(n) == IF n < 15 THEN n ELSE 15

\* C16: the data text has one labelled header per source, in the order of
\* the sources; under the header of a source of n rows stand exactly
\* min(n, 15) row lines, the i-th numbered i and rendering the i-th row of
\* the source, and then the next source or the end of the text.
C16_FirstFifteenRowsInOrder ==
    pc = "prompted"
    => Bind(prompt_lines, LAMBDA ls :
         Bind(source_headers(ls), LAMBDA hs :
           /\ Len(hs) = Len(all_data)
           /\ \A s \in 1..Len(all_data) :
                  /\ ls[hs[s]] = <<"-", "-", "-", " ">> \o sheet_name(s) \o <<" ", "-", "-", "-">>
                  /\ hs[s] + Sampled(Len(all_data[s].rows)) <= Len(ls)
                  /\ \A i \in 1..Sampled(Len(all_data[s].rows)) :
                         ls[hs[s] + i] = RowLine(i, all_data[s].rows[i])
                  /\ IF s < Len(all_data)
                     THEN /\ hs[s + 1] = hs[s] + Sampled(Len(all_data[s].rows)) + 2
                          /\ ls[hs[s + 1] - 1] = <<>>
                     ELSE Len(ls) = hs[s] + Sampled(Len(all_data[s].rows))))

\* a prompt has been built from a source of 17 rows numbered downwards and
\* a source of 3 rows: 15 and 3 row lines under two headers
C16_Witness ==
    /\ pc = "prompted"
    /\ Len(all_data) = 2
    /\ Len(all_data[1].rows) = 17
    /\ all_data[1].rows[1] = 17
    /\ Len(all_data[2].rows) = 3
    /\ Len(prompt_lines) = 2 + 15 + 2 + 3
    /\ prompt_lines[17] = <<"1", "5", ".", " ", "{", "3", "}">>

----------------------------------------------------------------------------
(* C17 *)

\* a chart-generation step, the model call, the parsing step and the
\* assembly step, as changes of the state of the run
ChartStep == images' # images \/ network_charts' # network_charts \/ files' # files
ModelCallStep == llm_calls' # llm_calls
ParsingStep == parsed' # parsed
AssemblyStep == docx_calls' # docx_calls

\* every sheet has gone through the chart loop
ChartsFinished ==
    /\ sheet_i > Len(all_data)
    /\ Len(images) = Len(all_data)
    /\ Len(network_charts) = Len(all_data)

\* C17: the steps of a run happen in the order chart generation for all
\* sources, model call, section parsing, document assembly, one at a time;
\* the model is called at most once, and not before every chart step has
\* finished, and assembly starts after all of them.
C17_StepsInOrder ==
    /\ [](llm_calls <= 1 /\ docx_calls <= 1)
    /\ [](llm_calls = 1 => ChartsFinished)
    /\ [](parsed # NoSections => llm_calls = 1)
    /\ [](docx_calls = 1 => (parsed # NoSections /\ llm_calls = 1 /\ ChartsFinished))
    /\ [][ChartStep => (llm_calls = 0 /\ ~ModelCallStep /\ ~ParsingStep /\ ~AssemblyStep)]_vars
    /\ [][ModelCallStep
             => (ChartsFinished /\ parsed = NoSections /\ docx_calls = 0
                 /\ ~ChartStep /\ ~ParsingStep /\ ~AssemblyStep)]_vars
    /\ [][ParsingStep
             => (llm_calls = 1 /\ docx_calls = 0
                 /\ ~ChartStep /\ ~ModelCallStep /\ ~AssemblyStep)]_vars
    /\ [][AssemblyStep
             => (llm_calls = 1 /\ parsed # NoSections
                 /\ ~ChartStep /\ ~ModelCallStep /\ ~ParsingStep)]_vars

\* a run over two sheets with a drawn chart has called the model once and has
\* written the document
C17_Witness ==
    /\ pc = "done"
    /\ Len(all_data) = 2
    /\ ChartsFinished
    /\ files # {}
    /\ llm_calls = 1
    /\ parsed # NoSections
    /\ docx_calls = 1
    /\ document.saved

----------------------------------------------------------------------------
(* C18 *)

\* a chart generator of the run returned without writing its image
ChartAbsent ==
    \E i \in 1..Len(all_data) : all_data[i].trend = "skipped" \/ all_data[i].ports = "skipped"

\* C18: when a chart image expected for a section is absent, the run leaves
\* that image out, completes and writes the document.
C18_AbsentChartNotFatal ==
    (docx_calls = 1 /\ ChartAbsent)
    => /\ pc = "done"
       /\ document.saved
       /\ \A b \in 1..Len(document.blocks) :
              document.blocks[b].kind = "image" => document.blocks[b].arg \in files

----------------------------------------------------------------------------
(* C19 *)

\* the texts of the heading blocks, in the order of the blocks
heading_texts(blocks) ==
    Bind(SelectSeq(blocks, LAMBDA b : b.kind = "heading"), LAMBDA hs :
        [i \in 1..Len(hs) |-> hs[i].arg] \o <<>>)

\* C19: generate_docx_report emits the cover page, the table of contents,
\* the section blocks with one heading per catalog entry in catalog order,
\* and the closing page, in this order; every one of the 9 headings is
\* emitted exactly once.
C19_FixedBlockOrder ==
    docx_calls = 1
    => Bind(document.blocks, LAMBDA bs :
         /\ Len(bs) >= 3
         /\ bs[1].kind = "cover"
         /\ bs[2].kind = "toc"
         /\ bs[Len(bs)].kind = "about"
         /\ \A i \in 3..(Len(bs) - 1) : bs[i].kind \in {"heading", "image", "table", "paragraph"}
         /\ bs[3].kind = "heading"
         /\ heading_texts(bs) = section_names)

----------------------------------------------------------------------------
(* C21 *)

\* every line of the text is a table-row candidate and there are at least three
AllRowsNoSeparator ==
    /\ Len(text_lines) >= 3
    /\ \A i \in 1..Len(text_lines) : IsTableRow(strip(text_lines[i]))
    /\ ~IsSeparatorCandidate(strip(text_lines[2]))
    /\ Len(region_cells(text_lines, 2)) = Len(region_headers(text_lines))

\* C21 as stated: in a table region whose second line is not a separator
\* candidate but an ordinary row with the header's cell count, that second
\* line is kept as the first data record of the table, both by
\* parse_markdown_table and by extract_tables_from_text.
C21_SecondRowKeptWithoutSeparator ==
    /\ (pc = "parsed" /\ AllRowsNoSeparator)
           => /\ ~parsed_table.isNone
              /\ MapsLastColumn(parsed_table.list[1], region_headers(text_lines),
                                region_cells(text_lines, 2))
    /\ (pc = "extracted" /\ AllRowsNoSeparator)
           => /\ Len(extracted.tables) = 1
              /\ MapsLastColumn(extracted.tables[1][1], region_headers(text_lines),
                                region_cells(text_lines, 2))

----------------------------------------------------------------------------
(* C22 *)

\* a cell made only of '-' and '=' marks, as the cells of a separator line are
IsSeparatorCell(c) == c # <<>> /\ \A i \in 1..Len(c) : c[i] \in {"-", "="}

\* a record whose every value is a separator cell, i.e. one read off a
\* separator line
IsSeparatorRecord(rec) == \A k \in DOMAIN rec : IsSeparatorCell(rec[k])

\* C22 as stated: no table returned by extract_tables_from_text holds a record
\* derived from a separator line, wherever in the region that line occurs.
C22_SeparatorNeverARecord ==
    pc = "extracted"
    => \A t \in 1..Len(extracted.tables) :
           \A r \in 1..Len(extracted.tables[t]) :
               ~IsSeparatorRecord(extracted.tables[t][r])


----------------------------------------------------------------------------
(* vocabulary of the claims about the attribution of lines to sections *)

\* the prose lines among the lines q: not blank, no table row, no separator
prose_lines(q) ==
    SelectSeq(q, LAMBDA l : l # <<>> /\ ~IsTableRow(l) /\ ~IsSeparatorLine(l))

\* lines a..b of q are a run of table lines that begins with a table row,
\* begins where no earlier table row of the same run stands, and ends where
\* the table lines end
IsTableRun(q, a, b) ==
    /\ a <= b
    /\ IsTableRow(q[a])
    /\ \A k \in a..b : IsTableRow(q[k]) \/ IsSeparatorLine(q[k])
    /\ \A k \in 1..(a - 1) :
           (\A m \in k..(a - 1) : IsTableRow(q[m]) \/ IsSeparatorLine(q[m]))
               => ~IsTableRow(q[k])
    /\ b = Len(q) \/ ~(IsTableRow(q[b + 1]) \/ IsSeparatorLine(q[b + 1]))

\* the runs of q that are long enough and keep at least one data row
table_runs(q) ==
    {r \in (1..Len(q)) \X (1..Len(q)) :
        /\ r[1] + 2 <= r[2]
        /\ IsTableRun(q, r[1], r[2])
        /\ matching_rows(SubSeq(q, r[1], r[2])) # <<>>}

\* the tables value tv is what the lines q give: None when no run of q yields
\* a table, and otherwise one table per such run
TablesOfLines(tv, q) ==
    Bind(table_runs(q), LAMBDA runs :
        IF runs = {} THEN tv = None
        ELSE /\ ~tv.isNone
             /\ Len(tv.list) = Cardinality(runs)
             /\ \A r \in runs : \E t \in 1..Len(tv.list) :
                    IsTableOfRegion(tv.list[t], SubSeq(q, r[1], r[2]))
             /\ \A t \in 1..Len(tv.list) : \E r \in runs :
                    IsTableOfRegion(tv.list[t], SubSeq(q, r[1], r[2])))

\* the prose and the tables of section n are those of the lines that follow
\* header line i, up to the next header
SegmentGives(v, i, n) ==
    Bind(content_of(v, i), LAMBDA q :
        /\ parsed.sections[n] = join(prose_lines(q), "\n")
        /\ TablesOfLines(parsed.section_tables[n], q))

\* some line follows header line i before the next header and is not blank
has_content(v, i) == non_blank(content_of(v, i)) # <<>>

----------------------------------------------------------------------------
(* C23 *)

\* C23: lines before the first detected header are captured by no section,
\* and every line after a detected header goes to the section of the most
\* recently detected header and to no other: what a section holds is the
\* prose and the tables of the lines between one header of that section and
\* the next header (or the end), and a section whose header occurs once, with
\* content, holds exactly the lines that follow that header.
C23_LinesGoToMostRecentHeader ==
    pc = "sectioned"
    => Bind(section_view, LAMBDA v :
         /\ \A n \in CatalogNames :
                parsed.sections[n] # PlaceholderText(n)
                => \E i \in 1..Len(v.lines) :
                       HeaderAt(v, i) /\ header_name(v, i) = n /\ SegmentGives(v, i, n)
         /\ \A i \in 1..Len(v.lines) :
                (HeaderAt(v, i) /\ OnlyHeaderOfItsSection(v, i) /\ has_content(v, i))
                => SegmentGives(v, i, header_name(v, i)))

\* a text with a prose line before its first header, then a header with
\* content and the header of another section, has been parsed
C23_Witness ==
    /\ pc = "sectioned"
    /\ Bind(section_view, LAMBDA v :
         /\ Len(v.lines) >= 4
         /\ v.lines[1] # <<>> /\ ~HeaderAt(v, 1)
         /\ \E i, j \in 2..Len(v.lines) :
                /\ i < j
                /\ \A m \in 1..(i - 1) : ~HeaderAt(v, m)
                /\ HeaderAt(v, i) /\ HeaderAt(v, j)
                /\ v.headers[i] # v.headers[j]
                /\ has_content(v, i)
                /\ parsed.sections[header_name(v, i)] # PlaceholderText(header_name(v, i))
                /\ \A n \in CatalogNames :
                       v.lines[1] \notin Range(split(parsed.sections[n], "\n")))

----------------------------------------------------------------------------
(* C24 *)

\* the header lines of section n
headers_of(v, n) == {i \in 1..Len(v.lines) : HeaderAt(v, i) /\ header_name(v, i) = n}

\* C24 as stated: a section has the placeholder prose if and only if no header
\* of it was detected, and a section whose header was detected but is never
\* followed by a content line has the empty string as prose.
C24_PlaceholderIffNoHeader ==
    pc = "sectioned"
    => Bind(section_view, LAMBDA v :
         \A n \in CatalogNames :
           Bind(headers_of(v, n), LAMBDA hs :
             /\ (parsed.sections[n] = PlaceholderText(n)) <=> (hs = {})
             /\ (hs # {} /\ \A i \in hs : ~has_content(v, i))
                    => parsed.sections[n] = <<>>))

----------------------------------------------------------------------------
(* C25 *)

\* the greatest element of a non-empty set of numbers
Greatest(S) == CHOOSE x \in S : \A y \in S : y <= x

\* C25: when the header of a section is detected more than once, the prose
\* and the tables of the section are both those of the last occurrence that
\* is followed by content: nothing of an earlier occurrence remains, and
\* prose and tables stem from the same occurrence.
C25_LastOccurrenceWithContentWins ==
    pc = "sectioned"
    => Bind(section_view, LAMBDA v :
         \A n \in CatalogNames :
           Bind(headers_of(v, n), LAMBDA hs :
             Bind({i \in hs : has_content(v, i)}, LAMBDA filled :
               (Cardinality(hs) >= 2 /\ filled # {})
                   => SegmentGives(v, Greatest(filled), n))))

\* a text in which a section's header occurs twice, first followed by a table
\* and then by prose, has been parsed: the section keeps the prose and no table
C25_Witness ==
    /\ pc = "sectioned"
    /\ Bind(section_view, LAMBDA v :
         \E i, j \in 1..Len(v.lines) :
           /\ i < j
           /\ HeaderAt(v, i) /\ HeaderAt(v, j)
           /\ v.headers[i] = v.headers[j]
           /\ table_runs(content_of(v, i)) # {}
           /\ OnlyProse(content_of(v, j))
           /\ next_header(v, j) = Len(v.lines) + 1
           /\ parsed.sections[header_name(v, j)] = join(non_blank(content_of(v, j)), "\n")
           /\ parsed.section_tables[header_name(v, j)] = None)

----------------------------------------------------------------------------
(* C27 *)

\* C27: in the mappings returned by parse_report_sections the tables value of
\* a section is None or a non-empty list of non-empty tables, and no line of
\* a section's prose is a table-row candidate.
C27_TablesNoneOrFilledProseWithoutRows ==
    pc = "sectioned"
    => \A n \in CatalogNames :
           /\ \/ parsed.section_tables[n] = None
              \/ /\ ~parsed.section_tables[n].isNone
                 /\ parsed.section_tables[n].list # <<>>
                 /\ \A t \in 1..Len(parsed.section_tables[n].list) :
                        parsed.section_tables[n].list[t] # <<>>
           /\ Bind(split(parsed.sections[n], "\n"), LAMBDA ls :
                  \A k \in 1..Len(ls) : ~IsTableRow(strip(ls[k])))

\* a text in which one section holds a run too short to be a table and
\* another holds a table has been parsed: the first has None and the empty
\* prose, the second a list of one table
C27_Witness ==
    /\ pc = "sectioned"
    /\ Bind(section_view, LAMBDA v :
         \E i, j \in 1..Len(v.lines) :
           /\ HeaderAt(v, i) /\ HeaderAt(v, j)
           /\ OnlyHeaderOfItsSection(v, i) /\ OnlyHeaderOfItsSection(v, j)
           /\ has_content(v, i)
           /\ prose_lines(content_of(v, i)) = <<>>
           /\ table_runs(content_of(v, i)) = {}
           /\ parsed.section_tables[header_name(v, i)] = None
           /\ parsed.sections[header_name(v, i)] = <<>>
           /\ OnlyTable(content_of(v, j))
           /\ Len(parsed.section_tables[header_name(v, j)].list) = 1)

----------------------------------------------------------------------------
(* C26 *)

\* C26 as stated: no line of the clean text returned by
\* extract_tables_from_text is a table-row candidate, whether its run gave a
\* table or was too short, and none is a separator candidate either.
C26_TableLinesAbsentFromCleanText ==
    pc = "extracted"
    => Bind(split(extracted.clean_text, "\n"), LAMBDA ls :
           \A k \in 1..Len(ls) :
               /\ ~IsTableRow(strip(ls[k]))
               /\ ~IsSeparatorCandidate(strip(ls[k])))

\* the part of C26 that holds: no line of the clean text is a table-row
\* candidate or a line the extractor takes for a separator
CleanTextWithoutTableLines ==
    pc = "extracted"
    => Bind(split(extracted.clean_text, "\n"), LAMBDA ls :
           \A k \in 1..Len(ls) :
               /\ ~IsTableRow(strip(ls[k]))
               /\ ~IsSeparatorLine(strip(ls[k])))

====
